---- MODULE Spec2Model ----
(* Model of src/adressbook.py: validated fields, ContactRecord, AddressBook   *)
(* with the upcoming-birthdays query, and the command handlers wrapped by     *)
(* input_error.  Python strings that the code inspects character by character *)
(* (phones, dates) are sequences of one-character strings; names and fixed    *)
(* messages are opaque strings.                                               *)
EXTENDS Integers, Sequences, FiniteSets, TLC

VARIABLES book, prev, cmd, res, upcoming

vars == <<book, prev, cmd, res, upcoming>>

(* ------------------------------------------------------------------------ *)
(* Characters and str.isdigit                                               *)
(* ------------------------------------------------------------------------ *)

AsciiDigits == {"0", "1", "2", "3", "4", "5", "6", "7", "8", "9"}

(* Characters outside ASCII for which Python's str.isdigit() is True:       *)
(* U+0662 ARABIC-INDIC DIGIT TWO and U+00B2 SUPERSCRIPT TWO.                *)
NonAsciiDigits == {"u0662", "u00B2"}

isdigit(s) ==
    /\ Len(s) > 0
    /\ \A i \in 1..Len(s) : s[i] \in AsciiDigits \cup NonAsciiDigits

DigitVal(c) ==
    CASE c = "0" -> 0 [] c = "1" -> 1 [] c = "2" -> 2 [] c = "3" -> 3
      [] c = "4" -> 4 [] c = "5" -> 5 [] c = "6" -> 6 [] c = "7" -> 7
      [] c = "8" -> 8 [] c = "9" -> 9

DigitChar(n) == CHOOSE c \in AsciiDigits : DigitVal(c) = n

(* ------------------------------------------------------------------------ *)
(* Outcomes of a call: a returned value or a raised exception               *)
(* ------------------------------------------------------------------------ *)

Ok(v) == [ok |-> TRUE, val |-> v]

Raise(e, m) == [ok |-> FALSE, exc |-> e, msg |-> m]

(* ------------------------------------------------------------------------ *)
(* PhoneNumber                                                              *)
(* ------------------------------------------------------------------------ *)

PhoneLen == 10

PhoneNumber(value) ==
    IF ~isdigit(value) \/ Len(value) # PhoneLen
    THEN Raise("ValueError", "Phone must contain 10 digits")
    ELSE Ok(value)

(* ------------------------------------------------------------------------ *)
(* datetime.date: proleptic Gregorian calendar                              *)
(* ------------------------------------------------------------------------ *)

Date(y, m, d) == [year |-> y, month |-> m, day |-> d]

IsLeap(y) == y % 4 = 0 /\ (y % 100 # 0 \/ y % 400 = 0)

DaysInMonth(y, m) ==
    IF m = 2 THEN (IF IsLeap(y) THEN 29 ELSE 28)
    ELSE IF m \in {4, 6, 9, 11} THEN 30 ELSE 31

DaysBeforeYear(y) ==
    (y - 1) * 365 + ((y - 1) \div 4) - ((y - 1) \div 100) + ((y - 1) \div 400)

DaysBeforeMonth(y, m) ==
    <<0, 31, 59, 90, 120, 151, 181, 212, 243, 273, 304, 334>>[m]
        + (IF m > 2 /\ IsLeap(y) THEN 1 ELSE 0)

toordinal(dt) ==
    DaysBeforeYear(dt.year) + DaysBeforeMonth(dt.year, dt.month) + dt.day

fromordinal(n) ==
    LET y == CHOOSE yy \in (n \div 366)..((n \div 365) + 1) :
                 DaysBeforeYear(yy) < n /\ n <= DaysBeforeYear(yy + 1)
        r == n - DaysBeforeYear(y)
        m == CHOOSE mm \in 1..12 :
                 /\ DaysBeforeMonth(y, mm) < r
                 /\ r <= DaysBeforeMonth(y, mm) + DaysInMonth(y, mm)
    IN  Date(y, m, r - DaysBeforeMonth(y, m))

(* Monday is 0, Sunday is 6 *)
weekday(dt) == (toordinal(dt) + 6) % 7

(* date.replace(year=...) *)
replace_year(dt, y) ==
    IF dt.day > DaysInMonth(y, dt.month)
    THEN Raise("ValueError", "day is out of range for month")
    ELSE Ok(Date(y, dt.month, dt.day))

(* ------------------------------------------------------------------------ *)
(* strptime / strftime with the format "%d.%m.%Y"                           *)
(* ------------------------------------------------------------------------ *)

AllAscii(s) == \A i \in 1..Len(s) : s[i] \in AsciiDigits

RECURSIVE Num(_)
Num(s) == IF Len(s) = 0 THEN 0
          ELSE 10 * Num(SubSeq(s, 1, Len(s) - 1)) + DigitVal(s[Len(s)])

(* %d and %m take one or two digits, %Y exactly four; the fields are        *)
(* separated by literal dots and nothing may follow the year.               *)
strptime(value) ==
    LET dots == {i \in 1..Len(value) : value[i] = "."}
        NoMatch == Raise("ValueError", "time data does not match format")
    IN  IF Cardinality(dots) # 2 THEN NoMatch
        ELSE
          LET i1 == CHOOSE i \in dots : \A j \in dots : i <= j
              i2 == CHOOSE i \in dots : \A j \in dots : i >= j
              ds == SubSeq(value, 1, i1 - 1)
              ms == SubSeq(value, i1 + 1, i2 - 1)
              ys == SubSeq(value, i2 + 1, Len(value))
          IN  IF \/ Len(ds) \notin {1, 2} \/ Len(ms) \notin {1, 2} \/ Len(ys) # 4
                 \/ ~AllAscii(ds) \/ ~AllAscii(ms) \/ ~AllAscii(ys)
                 \/ Num(ds) \notin 1..31 \/ Num(ms) \notin 1..12
              THEN NoMatch
              ELSE IF Num(ys) < 1
              THEN Raise("ValueError", "year 0 is out of range")
              ELSE IF Num(ds) > DaysInMonth(Num(ys), Num(ms))
              THEN Raise("ValueError", "day is out of range for month")
              ELSE Ok(Date(Num(ys), Num(ms), Num(ds)))

strftime(dt) ==
    << DigitChar(dt.day \div 10), DigitChar(dt.day % 10), ".",
       DigitChar(dt.month \div 10), DigitChar(dt.month % 10), ".",
       DigitChar(dt.year \div 1000), DigitChar((dt.year \div 100) % 10),
       DigitChar((dt.year \div 10) % 10), DigitChar(dt.year % 10) >>

(* ------------------------------------------------------------------------ *)
(* BirthDate                                                                *)
(* ------------------------------------------------------------------------ *)

BirthDate(value) ==
    IF strptime(value).ok
    THEN Ok(value)
    ELSE Raise("ValueError", "Invalid date format. Use DD.MM.YYYY")

(* ------------------------------------------------------------------------ *)
(* ContactRecord                                                            *)
(* ------------------------------------------------------------------------ *)

(* The optional birthday: <<>> is None, <<v>> is a BirthDate with value v.  *)
NoBirthday == <<>>

ContactRecord(name) == [name |-> name, phones |-> <<>>, birthday |-> NoBirthday]

(* Each method yields the outcome of the call and the record afterwards.    *)
add_phone(rec, phone) ==
    LET p == PhoneNumber(phone)
    IN  IF p.ok
        THEN [out |-> Ok("None"), rec |-> [rec EXCEPT !.phones = Append(@, p.val)]]
        ELSE [out |-> p, rec |-> rec]

change_phone_upsert(rec, old_phone, new_phone) ==
    LET hits == {i \in 1..Len(rec.phones) : rec.phones[i] = old_phone}
    IN  IF hits = {}
        THEN add_phone(rec, new_phone)
        ELSE LET i == CHOOSE k \in hits : \A j \in hits : k <= j
                 p == PhoneNumber(new_phone)
             IN  IF p.ok
                 THEN [out |-> Ok("None"), rec |-> [rec EXCEPT !.phones[i] = p.val]]
                 ELSE [out |-> p, rec |-> rec]

change_phone(rec, old_phone, new_phone) ==
    LET hits == {i \in 1..Len(rec.phones) : rec.phones[i] = old_phone}
    IN  IF hits = {}
        THEN [out |-> Raise("ValueError", "Phone not found"), rec |-> rec]
        ELSE LET i == CHOOSE k \in hits : \A j \in hits : k <= j
                 p == PhoneNumber(new_phone)
             IN  IF p.ok
                 THEN [out |-> Ok("None"), rec |-> [rec EXCEPT !.phones[i] = p.val]]
                 ELSE [out |-> p, rec |-> rec]

record_add_birthday(rec, date) ==
    LET b == BirthDate(date)
    IN  IF b.ok
        THEN [out |-> Ok("None"), rec |-> [rec EXCEPT !.birthday = <<b.val>>]]
        ELSE [out |-> b, rec |-> rec]

(* ------------------------------------------------------------------------ *)
(* AddressBook: data is the mapping, keys its insertion order               *)
(* ------------------------------------------------------------------------ *)

AddressBook == [data |-> <<>>, keys |-> <<>>]

Has(b, name) == name \in DOMAIN b.data

add_record(b, record) ==
    IF Has(b, record.name)
    THEN [b EXCEPT !.data[record.name] = record]
    ELSE [data |-> [n \in DOMAIN b.data \cup {record.name} |->
                       IF n = record.name THEN record ELSE b.data[n]],
          keys |-> Append(b.keys, record.name)]

(* find returns the record or None; callers test Has before reading it.     *)
find(b, name) == IF Has(b, name) THEN <<b.data[name]>> ELSE <<>>

(* lines 71-74: this year's occurrence, or next year's if already past      *)
next_birthday_skip_today(birth, today) ==
    LET this == replace_year(birth, today.year)
    IN  IF ~this.ok THEN this
        ELSE IF toordinal(this.val) <= toordinal(today)
        THEN replace_year(this.val, today.year + 1)
        ELSE this

next_birthday(birth, today) ==
    LET this == replace_year(birth, today.year)
    IN  IF ~this.ok THEN this
        ELSE IF toordinal(this.val) < toordinal(today)
        THEN replace_year(this.val, today.year + 1)
        ELSE this

(* lines 76-79: Saturday moves two days on, Sunday one day on               *)
weekend_shift_one(dt) ==
    IF weekday(dt) \in {5, 6}
    THEN fromordinal(toordinal(dt) + 1)
    ELSE dt

weekend_shift(dt) ==
    IF weekday(dt) = 5 THEN fromordinal(toordinal(dt) + 2)
    ELSE IF weekday(dt) = 6 THEN fromordinal(toordinal(dt) + 1)
    ELSE dt

Window == 7

(* The loop of get_upcoming_birthdays from position i with result so far.   *)
RECURSIVE upcoming_loop(_, _, _, _)
upcoming_loop(b, today, i, result) ==
    IF i > Len(b.keys) THEN Ok(result)
    ELSE
      LET record == b.data[b.keys[i]]
      IN  IF record.birthday = NoBirthday
          THEN upcoming_loop(b, today, i + 1, result)
          ELSE
            LET birth == strptime(record.birthday[1])
                nb    == IF birth.ok THEN next_birthday(birth.val, today) ELSE birth
            IN  IF ~nb.ok THEN nb
                ELSE
                  LET shifted   == weekend_shift(nb.val)
                      days_left == toordinal(shifted) - toordinal(today)
                  IN  IF 0 <= days_left /\ days_left <= Window
                      THEN upcoming_loop(b, today, i + 1,
                               Append(result, [name |-> record.name,
                                               birthday |-> strftime(shifted)]))
                      ELSE upcoming_loop(b, today, i + 1, result)

get_upcoming_birthdays(b, today) == upcoming_loop(b, today, 1, <<>>)

(* ------------------------------------------------------------------------ *)
(* Command handlers.  A handler yields its outcome and the book afterwards. *)
(* Returned strings: kind "msg" is the literal msg, "error" is              *)
(* "Error: " + msg, "phones" is data joined by ", ", "date" is data, and    *)
(* "lines" is "name: birthday" for each element of data joined by newlines. *)
(* ------------------------------------------------------------------------ *)

Text(k, m, d) == [kind |-> k, msg |-> m, data |-> d]

Str(m) == Text("msg", m, <<>>)

(* name, phone = args  /  name, old_phone, new_phone = args *)
Unpack(args, n) ==
    IF Len(args) < n THEN Raise("ValueError", "not enough values to unpack")
    ELSE IF Len(args) > n THEN Raise("ValueError", "too many values to unpack")
    ELSE Ok(args)

input_error_value_only(h) ==
    IF h.out.ok \/ h.out.exc # "ValueError" THEN h
    ELSE [h EXCEPT !.out = Ok(Text("error", h.out.msg, <<>>))]

input_error(h) ==
    IF h.out.ok THEN h
    ELSE [h EXCEPT !.out = Ok(Text("error", h.out.msg, <<>>))]

add_contact_blind(args, b) ==
    LET u == Unpack(args, 2)
    IN  IF ~u.ok THEN [out |-> u, book |-> b]
        ELSE
          LET name  == args[1]
              phone == args[2]
              b1    == add_record(b, ContactRecord(name))
              r     == add_phone(b1.data[name], phone)
              b2    == [b1 EXCEPT !.data[name] = r.rec]
          IN  IF r.out.ok
              THEN [out |-> Ok(Str("Contact saved")), book |-> b2]
              ELSE [out |-> r.out, book |-> b2]

add_contact(args, b) ==
    LET u == Unpack(args, 2)
    IN  IF ~u.ok THEN [out |-> u, book |-> b]
        ELSE
          LET name  == args[1]
              phone == args[2]
              b1    == IF Has(b, name) THEN b
                       ELSE add_record(b, ContactRecord(name))
              r     == add_phone(b1.data[name], phone)
              b2    == [b1 EXCEPT !.data[name] = r.rec]
          IN  IF r.out.ok
              THEN [out |-> Ok(Str("Contact saved")), book |-> b2]
              ELSE [out |-> r.out, book |-> b2]

change_contact_unchecked(args, b) ==
    LET u == Unpack(args, 3)
    IN  IF ~u.ok THEN [out |-> u, book |-> b]
        ELSE IF ~Has(b, args[1])
        THEN [out |-> Raise("AttributeError",
                            "'NoneType' object has no attribute 'change_phone'"),
              book |-> b]
        ELSE
          LET r == change_phone(b.data[args[1]], args[2], args[3])
          IN  IF r.out.ok
              THEN [out |-> Ok(Str("Phone updated")),
                    book |-> [b EXCEPT !.data[args[1]] = r.rec]]
              ELSE [out |-> r.out, book |-> b]

change_contact(args, b) ==
    LET u == Unpack(args, 3)
    IN  IF ~u.ok THEN [out |-> u, book |-> b]
        ELSE IF ~Has(b, args[1])
        THEN [out |-> Ok(Str("Contact not found")), book |-> b]
        ELSE
          LET r == change_phone(b.data[args[1]], args[2], args[3])
          IN  IF r.out.ok
              THEN [out |-> Ok(Str("Phone updated")),
                    book |-> [b EXCEPT !.data[args[1]] = r.rec]]
              ELSE [out |-> r.out, book |-> b]

show_phone(args, b) ==
    IF Len(args) = 0
    THEN [out |-> Raise("IndexError", "list index out of range"), book |-> b]
    ELSE IF ~Has(b, args[1])
    THEN [out |-> Ok(Str("Contact not found")), book |-> b]
    ELSE [out |-> Ok(Text("phones", "", b.data[args[1]].phones)), book |-> b]

add_birthday(args, b) ==
    LET u == Unpack(args, 2)
    IN  IF ~u.ok THEN [out |-> u, book |-> b]
        ELSE IF ~Has(b, args[1])
        THEN [out |-> Ok(Str("Contact not found")), book |-> b]
        ELSE
          LET r == record_add_birthday(b.data[args[1]], args[2])
          IN  IF r.out.ok
              THEN [out |-> Ok(Str("Birthday added")),
                    book |-> [b EXCEPT !.data[args[1]] = r.rec]]
              ELSE [out |-> r.out, book |-> b]

show_birthday(args, b) ==
    IF Len(args) = 0
    THEN [out |-> Raise("IndexError", "list index out of range"), book |-> b]
    ELSE IF ~Has(b, args[1]) \/ b.data[args[1]].birthday = NoBirthday
    THEN [out |-> Ok(Str("Birthday not found")), book |-> b]
    ELSE [out |-> Ok(Text("date", "", b.data[args[1]].birthday[1])), book |-> b]

(* today is the value datetime.today().date() has during the call *)
birthdays(args, b, today) ==
    LET items == get_upcoming_birthdays(b, today)
    IN  IF ~items.ok THEN [out |-> items, book |-> b]
        ELSE IF items.val = <<>>
        THEN [out |-> Ok(Str("No birthdays this week")), book |-> b]
        ELSE [out |-> Ok(Text("lines", "", items.val)), book |-> b]

(* ------------------------------------------------------------------------ *)
(* Inputs of the session                                                    *)
(* ------------------------------------------------------------------------ *)

(* The session stops adding once the book holds MaxPhones phones.           *)
MaxPhones == 3

Names == {"alice", "bob"}

P1 == <<"1", "2", "3", "4", "5", "6", "7", "8", "9", "0">>
P2 == <<"4", "4", "4", "5", "5", "5", "6", "6", "6", "6">>
PNonAscii == <<"u0662", "u0662", "u0662", "u0662", "u0662",
               "u00B2", "u00B2", "u00B2", "u00B2", "u00B2">>
PShort == <<"1", "2", "3", "4", "5", "6", "7", "8", "9">>
PAlpha == <<"1", "2", "3", "4", "5", "a", "b", "c", "d", "e">>

PhoneInputs == {P1, P2, PNonAscii, PShort, PAlpha}

OldPhoneInputs == {P1, PNonAscii, PAlpha}

B2902 == <<"2", "9", ".", "0", "2", ".", "2", "0", "0", "0">>
BImpossible == <<"3", "1", ".", "0", "2", ".", "2", "0", "2", "0">>

DateInputs == {B2902, BImpossible}

(* What datetime.today().date() gives while the session runs: a day of a    *)
(* leap year and a day of a year that is not one.                           *)
SessionTodays == {Date(2024, 2, 26), Date(2025, 2, 26)}

AddArgs ==
    {<<n, p>> : n \in Names, p \in PhoneInputs}
      \cup {<<>>, <<"alice">>, <<"alice", P1, P2>>}

ChangeArgs ==
    {<<n, o, p>> : n \in Names, o \in OldPhoneInputs, p \in PhoneInputs}
      \cup {<<>>, <<"alice", P1>>, <<"alice", P1, P2, P2>>}

NameArgs == {<<n>> : n \in Names} \cup {<<>>, <<"alice", P1>>}

AddBirthdayArgs ==
    {<<n, d>> : n \in Names, d \in DateInputs}
      \cup {<<>>, <<"alice">>, <<"alice", B2902, B2902>>}

BirthdaysArgs == {<<>>, <<"alice">>}

RECURSIVE TotalPhones(_, _)
TotalPhones(b, i) ==
    IF i > Len(b.keys) THEN 0
    ELSE Len(b.data[b.keys[i]].phones) + TotalPhones(b, i + 1)

(* ------------------------------------------------------------------------ *)
(* The session: main() dispatching one command per step                     *)
(* ------------------------------------------------------------------------ *)

Start == [op |-> "start", args |-> <<>>, today |-> <<>>]

Init ==
    /\ book = AddressBook
    /\ prev = AddressBook
    /\ cmd = Start
    /\ res = Ok(Str("Welcome to the assistant bot!"))
    /\ upcoming = <<>>

(* A command ran: h is what the decorated handler gave back. *)
Ran(op, args, today, h, up) ==
    /\ prev' = book
    /\ book' = h.book
    /\ cmd' = [op |-> op, args |-> args, today |-> today]
    /\ res' = h.out
    /\ upcoming' = up

Add ==
    \E args \in AddArgs :
        /\ TotalPhones(book, 1) < MaxPhones
        /\ Ran("add", args, <<>>, input_error(add_contact(args, book)), <<>>)

Change ==
    \E args \in ChangeArgs :
        Ran("change", args, <<>>, input_error(change_contact(args, book)), <<>>)

Phone ==
    \E args \in NameArgs :
        Ran("phone", args, <<>>, input_error(show_phone(args, book)), <<>>)

AddBirthday ==
    \E args \in AddBirthdayArgs :
        Ran("add-birthday", args, <<>>, input_error(add_birthday(args, book)), <<>>)

ShowBirthday ==
    \E args \in NameArgs :
        Ran("show-birthday", args, <<>>, input_error(show_birthday(args, book)), <<>>)

BirthdaysOn(argsets, todays) ==
    \E args \in argsets, today \in todays :
        Ran("birthdays", args, <<today>>,
            input_error(birthdays(args, book, today)),
            <<get_upcoming_birthdays(book, today)>>)

Birthdays == BirthdaysOn(BirthdaysArgs, SessionTodays)

Next == Add \/ Change \/ Phone \/ AddBirthday \/ ShowBirthday \/ Birthdays

Spec == Init /\ [][Next]_vars

(* ------------------------------------------------------------------------ *)
(* The birthdays command over books of birthdays and many values of today   *)
(* ------------------------------------------------------------------------ *)

B0103 == <<"0", "1", ".", "0", "3", ".", "1", "9", "9", "0">>
B0101 == <<"0", "1", ".", "0", "1", ".", "2", "0", "0", "0">>
B2802 == <<"2", "8", ".", "0", "2", ".", "1", "9", "8", "5">>
B0803 == <<"0", "8", ".", "0", "3", ".", "1", "9", "9", "5">>
B3112 == <<"3", "1", ".", "1", "2", ".", "1", "9", "9", "9">>

StoredBirthdays == {NoBirthday, <<B2902>>, <<B0103>>, <<B0101>>, <<B2802>>,
                    <<B0803>>, <<B3112>>}

(* Late February and early March of a leap year and of the two years after  *)
(* it, and the last days of two years.                                      *)
Span(a, b) == {fromordinal(n) : n \in toordinal(a)..toordinal(b)}

Todays ==
    Span(Date(2024, 2, 21), Date(2024, 3, 3))
      \cup Span(Date(2025, 2, 21), Date(2025, 3, 3))
      \cup Span(Date(2026, 2, 21), Date(2026, 3, 3))
      \cup Span(Date(2024, 12, 24), Date(2024, 12, 31))
      \cup Span(Date(2025, 12, 24), Date(2025, 12, 31))

(* Books that add and add-birthday commands build: every record has one     *)
(* phone and any of the stored birthdays, in either insertion order.        *)
KeyOrders == {<<>>, <<"alice">>, <<"bob">>, <<"alice", "bob">>, <<"bob", "alice">>}

Range(f) == {f[i] : i \in DOMAIN f}

BirthdayBooks ==
    UNION { { [data |-> [n \in Range(k) |->
                            [name |-> n, phones |-> <<P1>>, birthday |-> bd[n]]],
               keys |-> k] : bd \in [Range(k) -> StoredBirthdays] } : k \in KeyOrders }

InitBirthdays ==
    /\ book \in BirthdayBooks
    /\ prev = book
    /\ cmd = Start
    /\ res = Ok(Str("Welcome to the assistant bot!"))
    /\ upcoming = <<>>

BirthdaysQuery == BirthdaysOn({<<>>}, Todays)

NextBirthdays == BirthdaysQuery

SpecBirthdays == InitBirthdays /\ [][NextBirthdays]_vars

(* ------------------------------------------------------------------------ *)
(* Vocabulary of the properties                                             *)
(* ------------------------------------------------------------------------ *)

IsTenAsciiDigits(s) == Len(s) = 10 /\ \A i \in 1..Len(s) : s[i] \in AsciiDigits

Called(op, n) == cmd.op = op /\ Len(cmd.args) = n

Returned(m) == res.ok /\ res.val.kind = "msg" /\ res.val.msg = m

ReturnedError == res.ok /\ res.val.kind = "error"

PhonesOf(b, name) == IF Has(b, name) THEN b.data[name].phones ELSE <<>>

BirthdayOf(b, name) == IF Has(b, name) THEN b.data[name].birthday ELSE NoBirthday

Holds(phones, p) == \E i \in 1..Len(phones) : phones[i] = p

(* C1: when change(name, old, new) reaches a record none of whose phones is *)
(* old, the call fails and the record's phone list, and with it the whole   *)
(* book, is what it was before the call.                                    *)
C1_FailedEditLeavesPhones ==
    (Called("change", 3) /\ Has(prev, cmd.args[1])
        /\ ~Holds(prev.data[cmd.args[1]].phones, cmd.args[2]))
    => /\ ReturnedError
       /\ book.data[cmd.args[1]].phones = prev.data[cmd.args[1]].phones
       /\ book = prev

C1_Witness ==
    /\ Called("change", 3) /\ Has(prev, cmd.args[1])
    /\ Len(prev.data[cmd.args[1]].phones) >= 1
    /\ ~Holds(prev.data[cmd.args[1]].phones, cmd.args[2])
    /\ PhoneNumber(cmd.args[3]).ok
    /\ ReturnedError /\ res.val.msg = "Phone not found"

(* C2: change(name, old, new) on an existing record with a new value that   *)
(* PhoneNumber rejects reports "Phone must contain 10 digits" whether or    *)
(* not old is in the list, and leaves the book as it was.                   *)
C2_NewValueValidatedFirst ==
    (Called("change", 3) /\ Has(prev, cmd.args[1]) /\ ~PhoneNumber(cmd.args[3]).ok)
    => /\ ReturnedError
       /\ res.val.msg = "Phone must contain 10 digits"
       /\ book = prev

(* C6: a successful add(name, phone) leaves name's record with its previous *)
(* phones (none if the name was new) followed by phone, keeps its birthday, *)
(* leaves every other record as it was and adds no other key.               *)
C6_AddAppendsAndKeeps ==
    (Called("add", 2) /\ Returned("Contact saved"))
    => /\ Has(book, cmd.args[1])
       /\ book.data[cmd.args[1]].phones
             = Append(PhonesOf(prev, cmd.args[1]), cmd.args[2])
       /\ book.data[cmd.args[1]].birthday = BirthdayOf(prev, cmd.args[1])
       /\ DOMAIN book.data = DOMAIN prev.data \cup {cmd.args[1]}
       /\ \A m \in DOMAIN prev.data \ {cmd.args[1]} : book.data[m] = prev.data[m]
       /\ book.keys = IF Has(prev, cmd.args[1]) THEN prev.keys
                      ELSE Append(prev.keys, cmd.args[1])

C6_Witness ==
    /\ Called("add", 2) /\ Returned("Contact saved")
    /\ Has(prev, cmd.args[1])
    /\ Len(prev.data[cmd.args[1]].phones) = 1
    /\ prev.data[cmd.args[1]].phones[1] # cmd.args[2]
    /\ prev.data[cmd.args[1]].birthday # NoBirthday
    /\ \E m \in DOMAIN prev.data \ {cmd.args[1]} : Len(prev.data[m].phones) = 1

(* C7: whatever the argument list and the book, every command handler gives *)
(* its caller a string; no exception leaves the handler.                    *)
C7_HandlersReturnStrings ==
    cmd.op # "start"
    => /\ res.ok
       /\ res.val.kind \in {"msg", "error", "phones", "date", "lines"}

(* the birthdays command over a book holding 29 February, in a year that is *)
(* not a leap year: the query raised and the handler still returned         *)
C7_Witness ==
    /\ cmd.op = "birthdays" /\ ~IsLeap(cmd.today[1].year)
    /\ \E n \in DOMAIN prev.data : prev.data[n].birthday = <<B2902>>
    /\ ~upcoming[1].ok
    /\ ReturnedError /\ res.val.msg = "day is out of range for month"

(* C8: change(name, old, new), phone(name) and add-birthday(name, date) for *)
(* a name that is not a key of the book return "Contact not found" and      *)
(* leave the book as it was.                                                *)
C8_UnknownNameNotFound ==
    ((Called("change", 3) \/ Called("phone", 1) \/ Called("add-birthday", 2))
        /\ ~Has(prev, cmd.args[1]))
    => Returned("Contact not found") /\ book = prev

C8_Witness ==
    /\ Called("change", 3) /\ ~Has(prev, cmd.args[1])
    /\ ~PhoneNumber(cmd.args[3]).ok
    /\ prev.keys # <<>>
    /\ Returned("Contact not found") /\ book = prev

(* C9: add(name, phone) succeeds exactly when phone is ten ASCII decimal    *)
(* digits, and every phone stored in the book is ten ASCII decimal digits.  *)
C9_PhonesAreTenAsciiDigits ==
    /\ Called("add", 2)
          => (Returned("Contact saved") <=> IsTenAsciiDigits(cmd.args[2]))
    /\ \A n \in DOMAIN book.data :
          \A i \in 1..Len(book.data[n].phones) :
              IsTenAsciiDigits(book.data[n].phones[i])

(* C10: an add(name, phone) whose phone PhoneNumber rejects returns an      *)
(* error and leaves the book as it was; no record for name appears.         *)
C10_RejectedAddLeavesBook ==
    (Called("add", 2) /\ ~PhoneNumber(cmd.args[2]).ok)
    => ReturnedError /\ book = prev

(* ------------------------------------------------------------------------ *)
(* Vocabulary of the birthday properties, in day numbers.  The calendar     *)
(* facts are stated on their own: 1 January 2024 was a Monday, and the next *)
(* occurrence of a birthday is the first day from today on that carries     *)
(* its day and month.                                                       *)
(* ------------------------------------------------------------------------ *)

KnownMonday == toordinal(Date(2024, 1, 1))

IsSaturday(n) == (n - KnownMonday) % 7 = 5

IsSunday(n) == (n - KnownMonday) % 7 = 6

Observed(n) == IF IsSaturday(n) THEN n + 2 ELSE IF IsSunday(n) THEN n + 1 ELSE n

(* the first of the 366 days from t on with this day and month, or -1 *)
NextOccurrence(d, m, t) ==
    LET S == {n \in t..(t + 366) : fromordinal(n).day = d /\ fromordinal(n).month = m}
    IN  IF S = {} THEN 0 - 1 ELSE CHOOSE n \in S : \A k \in S : n <= k

Born(name) == strptime(prev.data[name].birthday[1]).val

HasBirthday(name) == prev.data[name].birthday # NoBirthday

IsLeapDay(name) == HasBirthday(name) /\ Born(name).day = 29 /\ Born(name).month = 2

QueryToday == toordinal(cmd.today[1])

QueryReturned == cmd.op = "birthdays" /\ upcoming[1].ok

Entries == IF QueryReturned THEN upcoming[1].val ELSE <<>>

Listed(name) == \E i \in 1..Len(Entries) : Entries[i].name = name

Reported(i) == toordinal(strptime(Entries[i].birthday).val)

DaysLeft(name) ==
    Observed(NextOccurrence(Born(name).day, Born(name).month, QueryToday)) - QueryToday

(* C3: the query returns an entry for a record exactly when the record has  *)
(* a birthday whose next occurrence, moved off the weekend, is 0 to 7 days  *)
(* after today.  Records born on 29 February are left out of the statement. *)
C3_ListedIffWithinWindow ==
    cmd.op = "birthdays"
    => \A name \in DOMAIN prev.data :
          ~IsLeapDay(name)
          => (Listed(name)
                <=> (HasBirthday(name) /\ DaysLeft(name) \in 0..Window))

(* C4 as stated: a record whose birthday has today's day and month is       *)
(* returned, and the date reported for it is today.                         *)
C4_TodayReportedAsToday ==
    cmd.op = "birthdays"
    => \A name \in DOMAIN prev.data :
          (HasBirthday(name) /\ Born(name).day = cmd.today[1].day
                             /\ Born(name).month = cmd.today[1].month)
          => \E i \in 1..Len(Entries) :
                Entries[i].name = name /\ Entries[i].birthday = strftime(cmd.today[1])

(* C4 amended: for a record whose birthday has today's day and month the    *)
(* query either fails, which it does only when some record of the book was  *)
(* born on 29 February, or returns the record with the date today moved off *)
(* the weekend: today from Monday to Friday, the Monday after otherwise.    *)
C4_TodayReportedObserved ==
    cmd.op = "birthdays"
    => \A name \in DOMAIN prev.data :
          (HasBirthday(name) /\ Born(name).day = cmd.today[1].day
                             /\ Born(name).month = cmd.today[1].month)
          => IF upcoming[1].ok
             THEN \E i \in 1..Len(Entries) :
                     Entries[i].name = name /\ Reported(i) = Observed(QueryToday)
             ELSE \E other \in DOMAIN prev.data : IsLeapDay(other)

C4_Witness ==
    /\ QueryReturned /\ IsSaturday(QueryToday)
    /\ \E i \in 1..Len(Entries) :
          /\ Born(Entries[i].name).day = cmd.today[1].day
          /\ Born(Entries[i].name).month = cmd.today[1].month
          /\ Reported(i) = QueryToday + 2

(* C5: no returned entry reports a Saturday or a Sunday; the date reported  *)
(* is the next occurrence plus two days when that is a Saturday, plus one   *)
(* day when it is a Sunday, and the next occurrence itself otherwise.       *)
C5_ReportedOffWeekend ==
    \A i \in 1..Len(Entries) :
        LET b   == Born(Entries[i].name)
            occ == NextOccurrence(b.day, b.month, QueryToday)
        IN  /\ ~IsSaturday(Reported(i)) /\ ~IsSunday(Reported(i))
            /\ Reported(i) = (IF IsSaturday(occ) THEN occ + 2
                              ELSE IF IsSunday(occ) THEN occ + 1 ELSE occ)

C5_Witness ==
    /\ QueryReturned
    /\ \E i, j \in 1..Len(Entries) :
          LET bi == Born(Entries[i].name)
              bj == Born(Entries[j].name)
          IN  /\ IsSaturday(NextOccurrence(bi.day, bi.month, QueryToday))
              /\ IsSunday(NextOccurrence(bj.day, bj.month, QueryToday))

====
